---------------------------- MODULE Spec2Model ----------------------------
(***************************************************************************)
(* Revolut-to-YNAB: the transaction pipeline of src/api.py                 *)
(*   update_ynab: config -> download -> csv snapshot -> filter -> upload   *)
(*   upload_revolut_transactions_to_ynab: client -> budget id ->           *)
(*       account id -> translate -> bulk_create_transactions               *)
(* A run is one call of update_ynab (or of the upload function) for one    *)
(* Revolut account alias.  The ynab_client module and its default          *)
(* Configuration are process-wide: get_ynab_client writes the API key      *)
(* there and returns the module itself.                                    *)
(***************************************************************************)
EXTENDS Integers, Sequences, FiniteSets, TLC

(***************************************************************************)
(* Bounds of the model.                                                    *)
(***************************************************************************)
MaxLen == 3
MaxAmount == 4
MaxFee == 2
MaxBudgets == 2

(***************************************************************************)
(* Program constants.                                                      *)
(***************************************************************************)
AmountFactor == 10
MillisPerSecond == 1000

Aliases == {"main", "joint"}

None == "None"

NoError == [type |-> "None", msg |-> <<>>]

Range(s) == {s[i] : i \in 1..Len(s)}

SeqsUpTo(S, n) == UNION {[1..k -> S] : k \in 0..n}

(***************************************************************************)
(* Python dict: insertion-ordered keys, a later value for a key replaces   *)
(* the earlier one and keeps the key's place.                              *)
(***************************************************************************)
EmptyDict == [keys |-> <<>>, val |-> <<>>]

DictSet(d, k, v) ==
    IF \E i \in 1..Len(d.keys) : d.keys[i] = k
    THEN [keys |-> d.keys,
          val  |-> [i \in 1..Len(d.keys) |-> IF d.keys[i] = k THEN v ELSE d.val[i]]]
    ELSE [keys |-> Append(d.keys, k), val |-> Append(d.val, v)]

DictHas(d, k) == \E i \in 1..Len(d.keys) : d.keys[i] = k

DictGet(d, k) == d.val[CHOOSE i \in 1..Len(d.keys) : d.keys[i] = k]

(***************************************************************************)
(* "', '".join(names), as the sequence of the pieces of the string.        *)
(***************************************************************************)
RECURSIVE Join(_, _)
Join(sep, names) ==
    IF Len(names) = 0 THEN <<>>
    ELSE IF Len(names) = 1 THEN <<names[1]>>
    ELSE <<names[1], sep>> \o Join(sep, Tail(names))

Quoted(names) == <<"'">> \o Join("', '", names) \o <<"'">>

(***************************************************************************)
(* filter_revolut_transactions: the currency pass, then the state pass.    *)
(***************************************************************************)
\* a filter that forgets the reverted transactions
filtered_types_partial == {"DECLINED", "FAILED"}

filtered_types == {"DECLINED", "FAILED", "REVERTED"}

CurrencyPass(transactions, config) ==
    SelectSeq(transactions, LAMBDA x : x["currency"] \in config.currency)

StatePass(transactions) ==
    SelectSeq(transactions, LAMBDA x : x["state"] \notin filtered_types)

filter_revolut_transactions(transactions, config) ==
    StatePass(CurrencyPass(transactions, config))

(***************************************************************************)
(* The key whose lookup raises KeyError in the filter, or None: every      *)
(* transaction is asked for "currency", the survivors for "state".         *)
(***************************************************************************)
FilterKeyError(transactions, config) ==
    IF \E i \in 1..Len(transactions) : "currency" \notin DOMAIN transactions[i]
    THEN "currency"
    ELSE IF \E i \in 1..Len(CurrencyPass(transactions, config)) :
                "state" \notin DOMAIN CurrencyPass(transactions, config)[i]
    THEN "state"
    ELSE None

(***************************************************************************)
(* _convert_revolut_transaction_to_ynab                                    *)
(***************************************************************************)
ConvertKeys == <<"id", "description", "createdDate", "amount", "fee">>

\* the first key the dict literal looks up that t_revolut lacks, or None
MissingKey(t_revolut) ==
    IF \A i \in 1..Len(ConvertKeys) : ConvertKeys[i] \in DOMAIN t_revolut
    THEN None
    ELSE ConvertKeys[CHOOSE i \in 1..Len(ConvertKeys) :
                       /\ ConvertKeys[i] \notin DOMAIN t_revolut
                       /\ \A j \in 1..(i - 1) : ConvertKeys[j] \in DOMAIN t_revolut]

\* datetime.fromtimestamp(ms / 1000): whole seconds and the rest
FromTimestamp(ms) ==
    [seconds |-> ms \div MillisPerSecond, millis |-> ms % MillisPerSecond]

\* t_revolut.get("merchant", {}).get("name", None)
PayeeName(t_revolut) ==
    IF "merchant" \in DOMAIN t_revolut
    THEN IF "name" \in DOMAIN t_revolut["merchant"]
         THEN t_revolut["merchant"]["name"]
         ELSE None
    ELSE None

\* the factor applied to the fee alone
ConvertAmountPrecedence(t_revolut) ==
    t_revolut["amount"] - t_revolut["fee"] * AmountFactor

ConvertAmount(t_revolut) == (t_revolut["amount"] - t_revolut["fee"]) * AmountFactor

\* the transaction id written where the account id belongs
ConvertAccountMixup(t_revolut, account_id) ==
    [id         |-> t_revolut["id"],
     import_id  |-> t_revolut["id"],
     memo       |-> t_revolut["description"],
     account_id |-> t_revolut["id"],
     date       |-> FromTimestamp(t_revolut["createdDate"]),
     amount     |-> ConvertAmount(t_revolut),
     cleared    |-> "uncleared",
     approved   |-> FALSE,
     deleted    |-> FALSE,
     payee_name |-> PayeeName(t_revolut)]

_convert_revolut_transaction_to_ynab(t_revolut, account_id) ==
    [id         |-> t_revolut["id"],
     import_id  |-> t_revolut["id"],
     memo       |-> t_revolut["description"],
     account_id |-> account_id,
     date       |-> FromTimestamp(t_revolut["createdDate"]),
     amount     |-> ConvertAmount(t_revolut),
     cleared    |-> "uncleared",
     approved   |-> FALSE,
     deleted    |-> FALSE,
     payee_name |-> PayeeName(t_revolut)]

\* list(map(lambda t: _convert...(t, account_id), transactions_revolut))
ConvertAll(transactions_revolut, account_id) ==
    [i \in 1..Len(transactions_revolut) |->
        _convert_revolut_transaction_to_ynab(transactions_revolut[i], account_id)]

\* the KeyError the map raises: that of the first transaction lacking a key
FirstMissingKey(transactions_revolut) ==
    IF \A i \in 1..Len(transactions_revolut) : MissingKey(transactions_revolut[i]) = None
    THEN None
    ELSE MissingKey(transactions_revolut[
            CHOOSE i \in 1..Len(transactions_revolut) :
               /\ MissingKey(transactions_revolut[i]) # None
               /\ \A j \in 1..(i - 1) : MissingKey(transactions_revolut[j]) = None])

(***************************************************************************)
(* get_ynab_budget_id_mapping / get_ynab_account_id_mapping:               *)
(* {item.name: item.id for item in response}                               *)
(***************************************************************************)
RECURSIVE NameIdDict(_, _)
NameIdDict(response, acc) ==
    IF Len(response) = 0 THEN acc
    ELSE NameIdDict(Tail(response), DictSet(acc, response[1].name, response[1].id))

\* the mapping built with ids as keys and names as values
RECURSIVE IdNameDict(_, _)
IdNameDict(response, acc) ==
    IF Len(response) = 0 THEN acc
    ELSE IdNameDict(Tail(response), DictSet(acc, response[1].id, response[1].name))

BudgetMappingSwapped(response) == IdNameDict(response, EmptyDict)

get_ynab_budget_id_mapping(response) == NameIdDict(response, EmptyDict)

get_ynab_account_id_mapping(response) == NameIdDict(response, EmptyDict)

(***************************************************************************)
(* State.                                                                  *)
(*   revolut_toml, ynab_toml  the two configuration files                  *)
(*   revolut_account          what the Revolut API returns for an alias    *)
(*   ynab_budgets             the budgets each YNAB API key can see        *)
(*   configuration            ynab_client's default Configuration: the    *)
(*                            API key every ynab_client call is sent with  *)
(*   logs                     the csv snapshots written, per alias         *)
(*   api_log                  the YNAB API calls each run has made         *)
(* and, per run, the locals of update_ynab and of the upload function.     *)
(***************************************************************************)
VARIABLES revolut_toml, ynab_toml, revolut_account, ynab_budgets,
          configuration, logs, api_log,
          pc, revolut_conf, budget_name, transactions,
          budget_id, account_id, transactions_ynab, error, pushed

env == <<revolut_toml, ynab_toml, revolut_account, ynab_budgets>>

vars == <<revolut_toml, ynab_toml, revolut_account, ynab_budgets,
          configuration, logs, api_log,
          pc, revolut_conf, budget_name, transactions,
          budget_id, account_id, transactions_ynab, error, pushed>>

(***************************************************************************)
(* The YNAB accounts of each budget (AccountsApi().get_accounts).          *)
(***************************************************************************)
Item(name, id) == [name |-> name, id |-> id]

ynab_accounts ==
    [b \in {"b1", "b2", "b3", "b4", "b7"} |->
        CASE b = "b1" -> <<Item("Revolut", "a1"), Item("Savings", "a2")>>
          [] b = "b2" -> <<Item("Cash", "a3")>>
          [] b = "b3" -> <<Item("Revolut", "a4"), Item("Cash", "a5"), Item("Revolut", "a6")>>
          [] b = "b4" -> <<>>
          [] b = "b7" -> <<Item("Revolut", "a9")>>]

BudgetIds(key) == {ynab_budgets[key][i].id : i \in 1..Len(ynab_budgets[key])}

Names(response) == [i \in 1..Len(response) |-> response[i].name]

(***************************************************************************)
(* Steps of a run.                                                         *)
(***************************************************************************)
Call(op, b, ts, ok) ==
    [op |-> op, api_key |-> configuration, budget_id |-> b, transactions |-> ts, ok |-> ok]

Raise(r, type, msg) ==
    /\ pc' = [pc EXCEPT ![r] = "failed"]
    /\ error' = [error EXCEPT ![r] = [type |-> type, msg |-> msg]]

\* update_ynab, lines 27-31
LoadConfig(r) ==
    /\ pc[r] = "config"
    /\ IF r \notin DOMAIN revolut_toml
       THEN /\ Raise(r, "ValueError", <<r, "revolut.toml">>)
            /\ UNCHANGED <<revolut_conf, budget_name>>
       ELSE IF revolut_toml[r].ynab_account_alias \notin DOMAIN ynab_toml
       THEN /\ Raise(r, "ValueError", <<revolut_toml[r].ynab_account_alias, "ynab.toml">>)
            /\ revolut_conf' = [revolut_conf EXCEPT ![r] = revolut_toml[r]]
            /\ UNCHANGED budget_name
       ELSE /\ revolut_conf' = [revolut_conf EXCEPT ![r] = revolut_toml[r]]
            /\ budget_name' = [budget_name EXCEPT
                                 ![r] = ynab_toml[revolut_toml[r].ynab_account_alias].budget_name]
            /\ pc' = [pc EXCEPT ![r] = "download"]
            /\ UNCHANGED error
    /\ UNCHANGED <<env, configuration, logs, api_log, transactions,
                   budget_id, account_id, transactions_ynab, pushed>>

\* update_ynab, line 32: download_revolut_transactions
Download(r) ==
    /\ pc[r] = "download"
    /\ \/ /\ transactions' = [transactions EXCEPT ![r] = revolut_account[r]]
          /\ pc' = [pc EXCEPT ![r] = "snapshot"]
          /\ UNCHANGED error
       \/ /\ Raise(r, "RevolutError", <<r>>)
          /\ UNCHANGED transactions
    /\ UNCHANGED <<env, configuration, logs, api_log, revolut_conf, budget_name,
                   budget_id, account_id, transactions_ynab, pushed>>

\* update_ynab, lines 35-37: pd.DataFrame(transactions).to_csv(path)
Snapshot(r) ==
    /\ pc[r] = "snapshot"
    /\ \/ /\ logs' = [logs EXCEPT ![r] = Append(logs[r], transactions[r])]
          /\ pc' = [pc EXCEPT ![r] = "filter"]
          /\ UNCHANGED error
       \/ /\ Raise(r, "OSError", <<"logs", r>>)
          /\ UNCHANGED logs
    /\ UNCHANGED <<env, configuration, api_log, revolut_conf, budget_name, transactions,
                   budget_id, account_id, transactions_ynab, pushed>>

\* update_ynab, line 39: filter_revolut_transactions
Filter(r) ==
    /\ pc[r] = "filter"
    /\ IF FilterKeyError(transactions[r], revolut_conf[r]) # None
       THEN /\ Raise(r, "KeyError", <<FilterKeyError(transactions[r], revolut_conf[r])>>)
            /\ UNCHANGED transactions
       ELSE /\ transactions' = [transactions EXCEPT
                  ![r] = filter_revolut_transactions(transactions[r], revolut_conf[r])]
            /\ pc' = [pc EXCEPT ![r] = "client"]
            /\ UNCHANGED error
    /\ UNCHANGED <<env, configuration, logs, api_log, revolut_conf, budget_name,
                   budget_id, account_id, transactions_ynab, pushed>>

\* upload, line 131: get_ynab_client writes the alias's key into the default
\* Configuration and returns the ynab_client module
get_ynab_client(r) ==
    /\ pc[r] = "client"
    /\ IF revolut_conf[r].ynab_account_alias \notin DOMAIN ynab_toml
       THEN /\ Raise(r, "ValueError", <<revolut_conf[r].ynab_account_alias, "ynab.toml">>)
            /\ UNCHANGED configuration
       ELSE /\ configuration' = ynab_toml[revolut_conf[r].ynab_account_alias].api_key
            /\ pc' = [pc EXCEPT ![r] = "budget"]
            /\ UNCHANGED error
    /\ UNCHANGED <<env, logs, api_log, revolut_conf, budget_name, transactions,
                   budget_id, account_id, transactions_ynab, pushed>>

BudgetNotFoundMsg(name, mapping) ==
    <<"Budget named '", name, "' not found, available ones: ">> \o Quoted(mapping.keys)

AccountNotFoundMsg(name, mapping) ==
    <<"YNAB account named '", name, "' not found, available ones: ">> \o Quoted(mapping.keys)

\* the budget looked up without the membership check (dict.get)
ResolveBudgetUnchecked(r) ==
    /\ pc[r] = "budget"
    /\ \/ /\ api_log' = [api_log EXCEPT
                           ![r] = Append(api_log[r], Call("get_budgets", None, <<>>, TRUE))]
          /\ LET ynab_budget_id_map ==
                     get_ynab_budget_id_mapping(ynab_budgets[configuration])
             IN budget_id' = [budget_id EXCEPT
                                ![r] = IF DictHas(ynab_budget_id_map, budget_name[r])
                                       THEN DictGet(ynab_budget_id_map, budget_name[r])
                                       ELSE None]
          /\ pc' = [pc EXCEPT ![r] = "account"]
          /\ UNCHANGED error
       \/ /\ api_log' = [api_log EXCEPT
                           ![r] = Append(api_log[r], Call("get_budgets", None, <<>>, FALSE))]
          /\ Raise(r, "ApiException", <<"get_budgets">>)
          /\ UNCHANGED budget_id
    /\ UNCHANGED <<env, configuration, logs, revolut_conf, budget_name, transactions,
                   account_id, transactions_ynab, pushed>>

\* upload, lines 134-143
ResolveBudget(r) ==
    /\ pc[r] = "budget"
    /\ \/ /\ api_log' = [api_log EXCEPT
                           ![r] = Append(api_log[r], Call("get_budgets", None, <<>>, TRUE))]
          /\ LET ynab_budget_id_map ==
                     get_ynab_budget_id_mapping(ynab_budgets[configuration])
             IN IF ~DictHas(ynab_budget_id_map, budget_name[r])
                THEN /\ Raise(r, "BudgetNotFoundError",
                              BudgetNotFoundMsg(budget_name[r], ynab_budget_id_map))
                     /\ UNCHANGED budget_id
                ELSE /\ budget_id' = [budget_id EXCEPT
                                        ![r] = DictGet(ynab_budget_id_map, budget_name[r])]
                     /\ pc' = [pc EXCEPT ![r] = "account"]
                     /\ UNCHANGED error
       \/ /\ api_log' = [api_log EXCEPT
                           ![r] = Append(api_log[r], Call("get_budgets", None, <<>>, FALSE))]
          /\ Raise(r, "ApiException", <<"get_budgets">>)
          /\ UNCHANGED budget_id
    /\ UNCHANGED <<env, configuration, logs, revolut_conf, budget_name, transactions,
                   account_id, transactions_ynab, pushed>>

\* upload, lines 147-157; a budget the key cannot see is an API error
ResolveAccount(r) ==
    /\ pc[r] = "account"
    /\ \/ /\ budget_id[r] \in BudgetIds(configuration)
          /\ api_log' = [api_log EXCEPT
                           ![r] = Append(api_log[r], Call("get_accounts", budget_id[r], <<>>, TRUE))]
          /\ LET ynab_account_id_map ==
                     get_ynab_account_id_mapping(ynab_accounts[budget_id[r]])
                 name == revolut_conf[r].ynab_current_account_name
             IN IF ~DictHas(ynab_account_id_map, name)
                THEN /\ Raise(r, "AccountNotFoundError",
                              AccountNotFoundMsg(name, ynab_account_id_map))
                     /\ UNCHANGED account_id
                ELSE /\ account_id' = [account_id EXCEPT
                                         ![r] = DictGet(ynab_account_id_map, name)]
                     /\ pc' = [pc EXCEPT ![r] = "translate"]
                     /\ UNCHANGED error
       \/ /\ api_log' = [api_log EXCEPT
                           ![r] = Append(api_log[r], Call("get_accounts", budget_id[r], <<>>, FALSE))]
          /\ Raise(r, "ApiException", <<"get_accounts">>)
          /\ UNCHANGED account_id
    /\ UNCHANGED <<env, configuration, logs, revolut_conf, budget_name, transactions,
                   budget_id, transactions_ynab, pushed>>

\* a translation that leaves out the transactions it cannot convert
TranslateDropMalformed(r) ==
    /\ pc[r] = "translate"
    /\ transactions_ynab' = [transactions_ynab EXCEPT
          ![r] = ConvertAll(SelectSeq(transactions[r], LAMBDA t : MissingKey(t) = None),
                            account_id[r])]
    /\ pc' = [pc EXCEPT ![r] = "commit"]
    /\ UNCHANGED <<env, configuration, logs, api_log, revolut_conf, budget_name,
                   transactions, budget_id, account_id, pushed, error>>

\* upload, lines 160-165
Translate(r) ==
    /\ pc[r] = "translate"
    /\ IF FirstMissingKey(transactions[r]) # None
       THEN /\ Raise(r, "KeyError", <<FirstMissingKey(transactions[r])>>)
            /\ UNCHANGED transactions_ynab
       ELSE /\ transactions_ynab' = [transactions_ynab EXCEPT
                                       ![r] = ConvertAll(transactions[r], account_id[r])]
            /\ pc' = [pc EXCEPT ![r] = "commit"]
            /\ UNCHANGED error
    /\ UNCHANGED <<env, configuration, logs, api_log, revolut_conf, budget_name,
                   transactions, budget_id, account_id, pushed>>

\* a commit that is sent again when it fails
BulkRequestRetry(r, ok) ==
    IF ok
    THEN <<Call("bulk_create_transactions", budget_id[r], transactions_ynab[r], ok)>>
    ELSE <<Call("bulk_create_transactions", budget_id[r], transactions_ynab[r], ok),
           Call("bulk_create_transactions", budget_id[r], transactions_ynab[r], ok)>>

\* a commit that is not sent for an empty batch
BulkRequestSkipEmpty(r, ok) ==
    IF transactions_ynab[r] = <<>>
    THEN <<>>
    ELSE <<Call("bulk_create_transactions", budget_id[r], transactions_ynab[r], ok)>>

\* upload, lines 167-168: the requests the commit step sends
BulkRequest(r, ok) ==
    <<Call("bulk_create_transactions", budget_id[r], transactions_ynab[r], ok)>>

\* upload, lines 167-169: one bulk_create_transactions call, then the success log
BulkCommit(r) ==
    /\ pc[r] = "commit"
    /\ \/ /\ budget_id[r] \in BudgetIds(configuration)
          /\ api_log' = [api_log EXCEPT ![r] = api_log[r] \o BulkRequest(r, TRUE)]
          /\ pc' = [pc EXCEPT ![r] = "done"]
          /\ pushed' = [pushed EXCEPT ![r] = TRUE]
          /\ UNCHANGED error
       \/ /\ api_log' = [api_log EXCEPT ![r] = api_log[r] \o BulkRequest(r, FALSE)]
          /\ Raise(r, "ApiException", <<"bulk_create_transactions">>)
          /\ UNCHANGED pushed
    /\ UNCHANGED <<env, configuration, logs, revolut_conf, budget_name, transactions,
                   budget_id, account_id, transactions_ynab>>

\* update_ynab calls the upload function: lines 40-45 and 131-169
upload_revolut_transactions_to_ynab(r) ==
    \/ get_ynab_client(r)
    \/ ResolveBudget(r)
    \/ ResolveAccount(r)
    \/ Translate(r)
    \/ BulkCommit(r)

update_ynab(r) ==
    \/ LoadConfig(r)
    \/ Download(r)
    \/ Snapshot(r)
    \/ Filter(r)
    \/ upload_revolut_transactions_to_ynab(r)

(***************************************************************************)
(* Inputs.                                                                 *)
(***************************************************************************)
\* createdDate is in epoch milliseconds; the value is kept within 32 bits
Txn(id, currency, state, amount, fee) ==
    [id |-> id, currency |-> currency, state |-> state, createdDate |-> 86400123,
     amount |-> amount, fee |-> fee, description |-> "memo"]

WithMerchant(t, m) == [k \in DOMAIN t \cup {"merchant"} |-> IF k = "merchant" THEN m ELSE t[k]]

Without(t, key) == [k \in DOMAIN t \ {key} |-> t[k]]

\* Revolut transactions: eligible ones, ones the filter drops, and ones
\* lacking a key the translation reads
TxnPool ==
    { WithMerchant(Txn("t1", "EUR", "COMPLETED", 1050, 50), [name |-> "Lidl"]),
      Txn("t2", "EUR", "PENDING", -700, 25),
      Txn("t3", "USD", "COMPLETED", -2000, 0),
      Txn("t4", "EUR", "REVERTED", -500, 0),
      Without(Txn("t5", "EUR", "COMPLETED", 300, 0), "fee"),
      Without(Txn("t6", "EUR", "DECLINED", 0, 0), "amount") }

Currencies == {"EUR", "USD", "GBP"}

States == {"COMPLETED", "PENDING", "DECLINED", "FAILED", "REVERTED"}

FilterPool ==
    {Txn("t", c, s, 100, 0) : c \in Currencies, s \in States}
        \cup {Without(Txn("t", "EUR", "COMPLETED", 100, 0), "state")}

AmountPool ==
    {Txn("t", "EUR", "COMPLETED", a, f) : a \in (0 - MaxAmount)..MaxAmount,
                                           f \in (0 - MaxFee)..MaxFee}
        \cup {Txn("t", "EUR", "COMPLETED", 1050, 50),
              Without(Txn("t", "EUR", "COMPLETED", 1, 0), "createdDate")}

BudgetPool ==
    {Item("Personal", "b1"), Item("Shared", "b2"), Item("Personal", "b3"),
     Item("Household", "b4")}

BudgetNames == {"Personal", "Household"}

RevolutConfs ==
    [ynab_account_alias : {"y1", "y3"},
     ynab_current_account_name : {"Revolut", "Cash"},
     currency : {{"EUR"}, {"EUR", "GBP"}}]

NoToml == [a \in {} |-> None]

YnabToml(b1, b2) ==
    ("y1" :> [budget_name |-> b1, api_key |-> "k1"]) @@
    ("y2" :> [budget_name |-> b2, api_key |-> "k2"])

Budgets(k1, k2) == ("k1" :> k1) @@ ("k2" :> k2)

BudgetLists ==
    { <<Item("Personal", "b1"), Item("Shared", "b2")>>,
      <<Item("Personal", "b1"), Item("Shared", "b2"), Item("Personal", "b3")>>,
      <<>> }

OtherBudgets == <<Item("Personal", "b7")>>

(***************************************************************************)
(* The locals of every run before it starts.                               *)
(***************************************************************************)
InitLocals ==
    /\ configuration = None
    /\ logs = [r \in Aliases |-> <<>>]
    /\ api_log = [r \in Aliases |-> <<>>]
    /\ budget_id = [r \in Aliases |-> None]
    /\ account_id = [r \in Aliases |-> None]
    /\ transactions_ynab = [r \in Aliases |-> <<>>]
    /\ error = [r \in Aliases |-> NoError]
    /\ pushed = [r \in Aliases |-> FALSE]

NoConf == [ynab_account_alias |-> None, ynab_current_account_name |-> None, currency |-> {}]

(***************************************************************************)
(* Spec: one update_ynab run, for the alias "main".                        *)
(***************************************************************************)
Init ==
    /\ revolut_toml \in {NoToml} \cup {("main" :> c) : c \in RevolutConfs}
    /\ ynab_toml \in {YnabToml(b, "Personal") : b \in BudgetNames}
    /\ revolut_account \in {("main" :> b) @@ ("joint" :> <<>>) : b \in SeqsUpTo(TxnPool, MaxLen)}
    /\ ynab_budgets \in {Budgets(l, OtherBudgets) : l \in BudgetLists}
    /\ pc = [r \in Aliases |-> IF r = "main" THEN "config" ELSE "idle"]
    /\ revolut_conf = [r \in Aliases |-> NoConf]
    /\ budget_name = [r \in Aliases |-> None]
    /\ transactions = [r \in Aliases |-> <<>>]
    /\ InitLocals

Next == \E r \in Aliases : update_ynab(r)

Spec == Init /\ [][Next]_vars

(***************************************************************************)
(* SpecConc: two update_ynab runs in one process, for two aliases linked   *)
(* to two YNAB accounts with their own API keys.                           *)
(***************************************************************************)
ConcConf(y) ==
    [ynab_account_alias |-> y, ynab_current_account_name |-> "Revolut", currency |-> {"EUR"}]

InitConc ==
    /\ revolut_toml = ("main" :> ConcConf("y1")) @@ ("joint" :> ConcConf("y2"))
    /\ ynab_toml = YnabToml("Personal", "Personal")
    /\ revolut_account \in {("main" :> b1) @@ ("joint" :> b2) :
                               b1 \in {<<Txn("t1", "EUR", "COMPLETED", 1050, 50)>>,
                                       <<Txn("t1", "EUR", "COMPLETED", 1050, 50),
                                         Txn("t3", "USD", "COMPLETED", -2000, 0)>>},
                               b2 \in {<<Txn("t2", "EUR", "PENDING", -700, 25)>>}}
    /\ ynab_budgets = Budgets(<<Item("Personal", "b1"), Item("Shared", "b2")>>, OtherBudgets)
    /\ pc = [r \in Aliases |-> "config"]
    /\ revolut_conf = [r \in Aliases |-> NoConf]
    /\ budget_name = [r \in Aliases |-> None]
    /\ transactions = [r \in Aliases |-> <<>>]
    /\ InitLocals

SpecConc == InitConc /\ [][Next]_vars

(***************************************************************************)
(* SpecFilter: filter_revolut_transactions on every batch and currency     *)
(* setting, as update_ynab calls it after the snapshot.                    *)
(***************************************************************************)
InitFilter ==
    /\ revolut_toml \in {("main" :> [ynab_account_alias |-> "y1",
                                     ynab_current_account_name |-> "Revolut",
                                     currency |-> c]) : c \in {{}, {"EUR"}, {"EUR", "GBP"}}}
    /\ ynab_toml = YnabToml("Personal", "Personal")
    /\ revolut_account \in {("main" :> b) @@ ("joint" :> <<>>) : b \in SeqsUpTo(FilterPool, MaxLen)}
    /\ ynab_budgets = Budgets(<<Item("Personal", "b1")>>, OtherBudgets)
    /\ pc = [r \in Aliases |-> IF r = "main" THEN "filter" ELSE "idle"]
    /\ revolut_conf = [r \in Aliases |-> IF r = "main" THEN revolut_toml[r] ELSE NoConf]
    /\ budget_name = [r \in Aliases |-> IF r = "main" THEN "Personal" ELSE None]
    /\ transactions = [r \in Aliases |-> revolut_account[r]]
    /\ configuration = None
    /\ logs = [r \in Aliases |-> IF r = "main" THEN <<revolut_account[r]>> ELSE <<>>]
    /\ api_log = [r \in Aliases |-> <<>>]
    /\ budget_id = [r \in Aliases |-> None]
    /\ account_id = [r \in Aliases |-> None]
    /\ transactions_ynab = [r \in Aliases |-> <<>>]
    /\ error = [r \in Aliases |-> NoError]
    /\ pushed = [r \in Aliases |-> FALSE]

NextFilter == \E r \in Aliases : Filter(r)

SpecFilter == InitFilter /\ [][NextFilter]_vars

(***************************************************************************)
(* SpecTranslate: upload_revolut_transactions_to_ynab called with a        *)
(* transaction of every amount and fee within the bounds.                  *)
(***************************************************************************)
InitTranslate ==
    /\ revolut_toml = ("main" :> ConcConf("y1"))
    /\ ynab_toml = YnabToml("Personal", "Personal")
    /\ revolut_account = [r \in Aliases |-> <<>>]
    /\ ynab_budgets = Budgets(<<Item("Personal", "b1"), Item("Shared", "b2")>>, OtherBudgets)
    /\ pc = [r \in Aliases |-> IF r = "main" THEN "client" ELSE "idle"]
    /\ revolut_conf = [r \in Aliases |-> IF r = "main" THEN revolut_toml[r] ELSE NoConf]
    /\ budget_name = [r \in Aliases |-> IF r = "main" THEN "Personal" ELSE None]
    /\ transactions \in {("main" :> b) @@ ("joint" :> <<>>) : b \in SeqsUpTo(AmountPool, 1)}
    /\ InitLocals

NextTranslate ==
    \E r \in Aliases :
        get_ynab_client(r) \/ ResolveBudget(r) \/ ResolveAccount(r) \/ Translate(r)

SpecTranslate == InitTranslate /\ [][NextTranslate]_vars

(***************************************************************************)
(* SpecResolve: the budget resolution of two upload calls that use the     *)
(* same YNAB account, over every budget list within the bounds.            *)
(***************************************************************************)
InitResolve ==
    /\ revolut_toml = ("main" :> ConcConf("y1")) @@ ("joint" :> ConcConf("y1"))
    /\ ynab_toml \in {YnabToml(b, "Personal") : b \in BudgetNames}
    /\ revolut_account = [r \in Aliases |-> <<>>]
    /\ ynab_budgets \in {Budgets(l, OtherBudgets) : l \in SeqsUpTo(BudgetPool, MaxBudgets)}
    /\ pc = [r \in Aliases |-> "client"]
    /\ revolut_conf = [r \in Aliases |-> revolut_toml[r]]
    /\ budget_name = [r \in Aliases |-> ynab_toml["y1"].budget_name]
    /\ transactions = [r \in Aliases |-> <<>>]
    /\ InitLocals

NextResolve == \E r \in Aliases : get_ynab_client(r) \/ ResolveBudget(r)

SpecResolve == InitResolve /\ [][NextResolve]_vars

(***************************************************************************)
(* Properties.                                                             *)
(***************************************************************************)
BulkCalls(r) == SelectSeq(api_log[r], LAMBDA c : c.op = "bulk_create_transactions")

OwnKey(r) == ynab_toml[revolut_toml[r].ynab_account_alias].api_key

\* the get_budgets call of run r returned a list that lacks the configured name
BudgetAbsent(r) ==
    /\ Len(api_log[r]) >= 1
    /\ api_log[r][1].op = "get_budgets"
    /\ api_log[r][1].ok
    /\ budget_name[r] \notin Range(Names(ynab_budgets[api_log[r][1].api_key]))

\* the get_accounts call of run r returned a list that lacks the configured name
AccountAbsent(r) ==
    /\ Len(api_log[r]) >= 2
    /\ api_log[r][2].op = "get_accounts"
    /\ api_log[r][2].ok
    /\ revolut_conf[r].ynab_current_account_name
          \notin Range(Names(ynab_accounts[api_log[r][2].budget_id]))

\* C1: a run whose budget name is not in the budget list the destination
\* returned ends with BudgetNotFoundError, one whose account name is not in
\* the account list of the resolved budget ends with AccountNotFoundError,
\* and in both cases bulk_create_transactions has not been called.
C1_NoCommitOnUnknownName ==
    \A r \in Aliases :
        /\ BudgetAbsent(r) =>
              /\ pc[r] = "failed"
              /\ error[r].type = "BudgetNotFoundError"
              /\ BulkCalls(r) = <<>>
        /\ AccountAbsent(r) =>
              /\ pc[r] = "failed"
              /\ error[r].type = "AccountNotFoundError"
              /\ BulkCalls(r) = <<>>

C1_Witness ==
    /\ AccountAbsent("main")
    /\ pc["main"] = "failed"
    /\ Len(transactions["main"]) >= 1

\* C2: bulk_create_transactions is called at most once per run; its batch is
\* the translation of every transaction that survived the filter, in the
\* filtered order, under the resolved budget id; a failed call ends the run
\* in failure, without the success report, and success is reported only
\* after a call that succeeded.
C2_SingleBulkCommit ==
    \A r \in Aliases :
        /\ Len(BulkCalls(r)) <= 1
        /\ BulkCalls(r) # <<>> =>
              /\ Len(logs[r]) = 1
              /\ transactions[r] = filter_revolut_transactions(logs[r][1], revolut_conf[r])
              /\ BulkCalls(r)[1].transactions = ConvertAll(transactions[r], account_id[r])
              /\ BulkCalls(r)[1].budget_id = budget_id[r]
              /\ \E i \in 1..Len(ynab_budgets[OwnKey(r)]) :
                    ynab_budgets[OwnKey(r)][i] = Item(budget_name[r], budget_id[r])
              /\ BulkCalls(r)[1].ok => pc[r] = "done"
              /\ ~BulkCalls(r)[1].ok => (pc[r] = "failed" /\ ~pushed[r])
        /\ (pushed[r] \/ pc[r] = "done") => (BulkCalls(r) # <<>> /\ BulkCalls(r)[1].ok)

C2_Witness ==
    /\ pc["main"] = "failed"
    /\ Len(BulkCalls("main")) = 1
    /\ ~BulkCalls("main")[1].ok
    /\ Len(BulkCalls("main")[1].transactions) = 2
    /\ Len(logs["main"][1]) = 3

\* C3 as stated: a run left with zero transactions after filtering does not
\* call bulk_create_transactions.
C3_NoCommitWhenEmpty ==
    \A r \in Aliases :
        (pc[r] \in {"client", "budget", "account", "translate", "commit", "done"}
            /\ transactions[r] = <<>>) => BulkCalls(r) = <<>>

\* C3 amended: a run left with zero transactions after filtering does not
\* skip the bulk-commit: it is done only after one bulk_create_transactions
\* call with an empty batch has succeeded, and it fails when that call fails.
C3_EmptyBatchStillCommitted ==
    \A r \in Aliases :
        transactions[r] = <<>> =>
            /\ pc[r] = "done" =>
                  /\ Len(BulkCalls(r)) = 1
                  /\ BulkCalls(r)[1].transactions = <<>>
                  /\ BulkCalls(r)[1].ok
            /\ (BulkCalls(r) # <<>> /\ ~BulkCalls(r)[1].ok) => pc[r] = "failed"

C3_Witness ==
    /\ pc["main"] = "done"
    /\ logs["main"] = << <<>> >>
    /\ transactions["main"] = <<>>
    /\ Len(BulkCalls("main")) = 1

RECURSIVE IsSubseq(_, _)
IsSubseq(a, b) ==
    IF Len(a) = 0 THEN TRUE
    ELSE IF Len(b) = 0 THEN FALSE
    ELSE IF a[1] = b[1] THEN IsSubseq(Tail(a), Tail(b))
    ELSE IsSubseq(a, Tail(b))

Eligible(t, allowed) ==
    /\ t["currency"] \in allowed
    /\ t["state"] \notin {"DECLINED", "FAILED", "REVERTED"}

\* C4: the filter returns the subsequence of its input, in the input's order,
\* made of exactly the transactions whose currency is allowed and whose state
\* is none of DECLINED, FAILED, REVERTED.
C4_FilterExact ==
    \A r \in Aliases :
        pc[r] = "client" =>
            LET inp == logs[r][1]
                out == transactions[r]
                allowed == revolut_conf[r].currency
            IN /\ IsSubseq(out, inp)
               /\ \A i \in 1..Len(out) : Eligible(out[i], allowed)
               /\ Len(out) = Cardinality({i \in 1..Len(inp) : Eligible(inp[i], allowed)})

C4_Witness ==
    /\ pc["main"] = "client"
    /\ Len(logs["main"][1]) = 3
    /\ logs["main"][1][1]["currency"] = "USD"
    /\ "state" \in DOMAIN logs["main"][1][2]
    /\ logs["main"][1][2]["state"] = "REVERTED"
    /\ transactions["main"] = <<logs["main"][1][3]>>
    /\ revolut_conf["main"].currency = {"EUR"}

Malformed(t) == \E k \in {"id", "amount", "fee", "createdDate"} : k \notin DOMAIN t

\* C5: while a transaction lacking id, amount, fee or createdDate is in the
\* batch to upload, nothing is translated or committed and the run cannot
\* succeed: the translation raises and the run ends in failure.
C5_MalformedAborts ==
    \A r \in Aliases :
        (\E i \in 1..Len(transactions[r]) : Malformed(transactions[r][i])) =>
            /\ BulkCalls(r) = <<>>
            /\ transactions_ynab[r] = <<>>
            /\ pc[r] \notin {"commit", "done"}
            /\ ~pushed[r]

C5_Witness ==
    /\ pc["main"] = "failed"
    /\ error["main"] = [type |-> "KeyError", msg |-> <<"fee">>]
    /\ account_id["main"] # None
    /\ Len(transactions["main"]) = 2
    /\ ~Malformed(transactions["main"][1])

\* C6: the budget is resolved first, the account is resolved with a query of
\* that budget, both before the translation, and every translated
\* transaction carries the resolved account id.
C6_ResolveBeforeTranslate ==
    \A r \in Aliases :
        /\ account_id[r] # None =>
              /\ budget_id[r] # None
              /\ Len(api_log[r]) >= 2
              /\ api_log[r][1].op = "get_budgets"
              /\ api_log[r][2].op = "get_accounts"
              /\ api_log[r][2].budget_id = budget_id[r]
              /\ \E i \in 1..Len(ynab_accounts[budget_id[r]]) :
                    ynab_accounts[budget_id[r]][i] =
                        Item(revolut_conf[r].ynab_current_account_name, account_id[r])
        /\ budget_id[r] # None =>
              \E i \in 1..Len(ynab_budgets[OwnKey(r)]) :
                    ynab_budgets[OwnKey(r)][i] = Item(budget_name[r], budget_id[r])
        /\ pc[r] \in {"commit", "done"} \/ transactions_ynab[r] # <<>> =>
              /\ account_id[r] # None
              /\ Len(transactions_ynab[r]) = Len(transactions[r])
              /\ \A i \in 1..Len(transactions_ynab[r]) :
                    transactions_ynab[r][i].account_id = account_id[r]

C6_Witness ==
    /\ pc["main"] = "commit"
    /\ Len(transactions_ynab["main"]) = 2
    /\ account_id["main"] = "a5"
    /\ budget_id["main"] = "b3"

\* C7 as stated: a failure to write the snapshot does not abort the run.
C7_SnapshotFailureDoesNotAbort ==
    \A r \in Aliases : ~(pc[r] = "failed" /\ error[r].type = "OSError")

\* C8 as stated: a run that finished made every YNAB call with the API key
\* of its own alias, whatever the other run did meanwhile.
C8_RunsIndependent ==
    \A r \in Aliases :
        pc[r] = "done" =>
            \A i \in 1..Len(api_log[r]) : api_log[r][i].api_key = OwnKey(r)

Sign(x) == IF x > 0 THEN 1 ELSE IF x < 0 THEN -1 ELSE 0

\* C9: the translated amount is (amount - fee) times 10 and has the sign of
\* (amount - fee).
C9_AmountScaled ==
    \A r \in Aliases :
        pc[r] = "commit" =>
            /\ Len(transactions_ynab[r]) = Len(transactions[r])
            /\ \A i \in 1..Len(transactions[r]) :
                  LET t == transactions[r][i]
                      y == transactions_ynab[r][i]
                  IN /\ y.amount = 10 * (t["amount"] - t["fee"])
                     /\ Sign(y.amount) = Sign(t["amount"] - t["fee"])

C9_Witness ==
    /\ pc["main"] = "commit"
    /\ Len(transactions["main"]) = 1
    /\ transactions["main"][1]["amount"] = 1050
    /\ transactions["main"][1]["fee"] = 50
    /\ transactions_ynab["main"][1].amount = 10000

BudgetsListed(r) ==
    /\ Len(api_log[r]) >= 1
    /\ api_log[r][1].op = "get_budgets"
    /\ api_log[r][1].ok

IsPunctuation(piece) == piece \in {"'", "', '"}

\* C10: the budget resolution succeeds exactly when the requested name is in
\* the list just queried, with an id the list pairs with that name; otherwise
\* it fails with BudgetNotFoundError, whose message holds the requested name
\* and every available name; two resolutions over the same data agree.
C10_BudgetResolution ==
    \A r \in Aliases :
        LET list == ynab_budgets[OwnKey(r)]
            msg == error[r].msg
        IN /\ BudgetsListed(r) =>
                 IF budget_name[r] \in Range(Names(list))
                 THEN /\ pc[r] = "account"
                      /\ \E i \in 1..Len(list) : list[i] = Item(budget_name[r], budget_id[r])
                 ELSE /\ pc[r] = "failed"
                      /\ error[r].type = "BudgetNotFoundError"
                      /\ budget_id[r] = None
           /\ error[r].type = "BudgetNotFoundError" =>
                 /\ BudgetsListed(r)
                 /\ msg[2] = budget_name[r]
                 /\ \A n \in Range(Names(list)) : \E j \in 4..Len(msg) : msg[j] = n
                 /\ \A j \in 4..Len(msg) : IsPunctuation(msg[j]) \/ msg[j] \in Range(Names(list))
           /\ \A q \in Aliases :
                 (BudgetsListed(r) /\ BudgetsListed(q)) =>
                     (budget_id[r] = budget_id[q] /\ error[r] = error[q])

C10_Witness ==
    /\ ynab_budgets["k1"] = <<Item("Personal", "b1"), Item("Shared", "b2")>>
    /\ error["main"] =
          [type |-> "BudgetNotFoundError",
           msg  |-> <<"Budget named '", "Household", "' not found, available ones: ",
                      "'", "Personal", "', '", "Shared", "'">>]
    /\ error["joint"] = error["main"]

=============================================================================
